---------------------------- MODULE Spec2Model ----------------------------
(***************************************************************************)
(* Model of the TelegramBotForex services:                                 *)
(*   - WyckoffAIEngine.analyze and its response parser                     *)
(*     (src/services/ai_engine.py)                                         *)
(*   - FirebaseService, the REST-backed store with its local fallback      *)
(*     (src/services/firebase_service.py)                                  *)
(* The two services share no state; SpecEngine runs the engine and Spec    *)
(* runs the store, each leaving the other's variables untouched.           *)
(***************************************************************************)
EXTENDS Integers, Sequences, FiniteSets, TLC

VARIABLES
    \* ---- WyckoffAIEngine ----
    model,          \* self.model is set (TRUE) or None (FALSE)
    pc,             \* "idle": no call in progress; "returned": analyze returned
    response,       \* what self.model.generate_content produced in the last call
    result,         \* what the last analyze call handed to its caller
    \* ---- FirebaseService ----
    probe,          \* outcome of the reachability probe made by __init__
    initialized,    \* self.initialized
    hasLocal,       \* hasattr(self, '_local_storage')
    localTrades,    \* self._local_storage['trades']
    remoteTrades,   \* the remote collection trades/, in key order
    remoteSignals,  \* the remote collection external_signals/, in key order
    clock,          \* the wall clock datetime.now() reads
    call,           \* the last store operation and its arguments
    ret,            \* what the last store operation returned
    reqs,           \* the remote requests the last store operation issued
    \* ---- indicators ----
    df,             \* the DataFrame handed to the indicator functions
    indCall,        \* the indicator function last called
    indRet,         \* what it returned
    \* ---- the executor behind analyze_async ----
    tasks,          \* per caller: where its analyze_async call stands
    queue,          \* _executor's work queue, oldest first
    running,        \* the callers whose analyze is executing on a worker
    \* ---- threads calling save_signal ----
    threads,        \* per thread: the line it is at, its record, its result
    issued          \* the ids save_signal has returned, in order of return

engineVars == <<model, pc, response, result>>
storeVars == <<probe, initialized, hasLocal, localTrades, remoteTrades,
               remoteSignals, clock, call, ret, reqs>>
indVars == <<df, indCall, indRet>>
poolVars == <<tasks, queue, running>>
threadVars == <<threads, issued>>
vars == <<model, pc, response, result, probe, initialized, hasLocal,
          localTrades, remoteTrades, remoteSignals, clock, call, ret, reqs,
          df, indCall, indRet, tasks, queue, running, threads, issued>>

(***************************************************************************)
(* JSON / Python values.  Every value carries its type tag, so that a      *)
(* string where a number is expected is a case of the model.  A number is  *)
(* n + frac/10.                                                            *)
(***************************************************************************)
Null == [t |-> "null"]
Str(s) == [t |-> "str", s |-> s]
Num(n) == [t |-> "num", n |-> n, frac |-> 0]
\* an f-string: a fixed prefix followed by an interpolated text
FStr(prefix, s) == [t |-> "fstr", parts |-> <<prefix, s>>]

IsNum(v) == v.t = "num"
IsStr(v) == v.t = "str"

\* a text value that is not the empty string
NonEmptyText(v) ==
    \/ v.t = "str" /\ v.s # ""
    \/ v.t = "fstr" /\ \E i \in 1..Len(v.parts) : v.parts[i] # ""

(***************************************************************************)
(* Bounds                                                                  *)
(***************************************************************************)
\* longest response text, in tokens
MaxLen == 4

(***************************************************************************)
(* The response text of the model, as a sequence of tokens: an opening     *)
(* brace, a closing brace, a well-formed JSON member "key": value, or any  *)
(* other run of characters (prose, a code fence, a malformed member).      *)
(***************************************************************************)
LBrace == [c |-> "{"]
RBrace == [c |-> "}"]
Prose == [c |-> "txt"]
Member(k, v) == [c |-> "pair", k |-> k, v |-> v]

Members ==
    { Member("action", Str("BUY")), Member("action", Str("sell")),
      Member("action", Str("HOLD")), Member("action", Null),
      Member("confidence", Num(50)), Member("confidence", Num(85)),
      Member("confidence", Str("high")), Member("confidence", Num(150)),
      Member("entry", Num(2620)) }

Tokens == {LBrace, RBrace, Prose} \cup Members

SeqsUpTo(S, n) == UNION { [1..k -> S] : k \in 0..n }

ResponseTexts == SeqsUpTo(Tokens, MaxLen)

\* messages of the exceptions generate_content / response.text may raise
InvokeErrors == {"", "429 quota exceeded"}

NoResponse == [kind |-> "none"]
TextResponse(text) == [kind |-> "text", text |-> text]
ExcResponse(msg) == [kind |-> "exc", msg |-> msg]

Responses ==
    { TextResponse(t) : t \in ResponseTexts } \cup
    { ExcResponse(m) : m \in InvokeErrors }

\* outcome of a Python call: a returned value or a raised exception
Returned(v) == [kind |-> "ok", val |-> v]
Raised(msg) == [kind |-> "raise", msg |-> msg]
NoResult == [kind |-> "none"]

(***************************************************************************)
(* WyckoffAIEngine._get_wait_signal                                        *)
(***************************************************************************)
\* the wait signal with the price fields zeroed instead of left null
GetWaitSignalMutant(reason) ==
    [ action |-> Str("WAIT"),
      wyckoff_phase |-> Str("UNKNOWN"),
      event_detected |-> Str("NONE"),
      smc_trigger |-> Str("NONE"),
      entry |-> Num(0),
      stoploss |-> Num(0),
      takeprofit |-> Num(0),
      confidence |-> Num(0),
      reason |-> reason ]

GetWaitSignal(reason) ==
    [ action |-> Str("WAIT"),
      wyckoff_phase |-> Str("UNKNOWN"),
      event_detected |-> Str("NONE"),
      smc_trigger |-> Str("NONE"),
      entry |-> Null,
      stoploss |-> Null,
      takeprofit |-> Null,
      confidence |-> Num(0),
      reason |-> reason ]

(***************************************************************************)
(* re.search(r'\{[^{}]*\}', text, re.DOTALL): the leftmost opening brace   *)
(* whose next brace is a closing one; <<i, j>> are the positions of the    *)
(* two braces, <<0, 0>> when there is no match.                            *)
(***************************************************************************)
IsBrace(tok) == tok.c \in {"{", "}"}

MatchAt(text, i, j) ==
    /\ i < j
    /\ text[i].c = "{"
    /\ text[j].c = "}"
    /\ \A k \in (i+1)..(j-1) : ~IsBrace(text[k])

JsonMatch(text) ==
    LET starts == { i \in 1..Len(text) : \E j \in 1..Len(text) : MatchAt(text, i, j) }
    IN  IF starts = {} THEN <<0, 0>>
        ELSE LET i == CHOOSE s \in starts : \A o \in starts : s <= o
                 j == CHOOSE e \in 1..Len(text) : MatchAt(text, i, e)
             IN  <<i, j>>

\* json.loads of the matched group succeeds iff every token between the
\* braces is a well-formed member
JsonDecodes(body) == \A k \in 1..Len(body) : body[k].c = "pair"

\* dict.get(key, default) on the decoded object: the last member wins
RECURSIVE DictGet(_, _, _)
DictGet(body, key, default) ==
    IF body = <<>> THEN default
    ELSE IF body[Len(body)].k = key THEN body[Len(body)].v
    ELSE DictGet(SubSeq(body, 1, Len(body) - 1), key, default)

\* str.upper on the action texts of the model
Upper(s) ==
    CASE s = "sell" -> "SELL"
      [] s = "buy" -> "BUY"
      [] s = "wait" -> "WAIT"
      [] OTHER -> s

ConfidenceThreshold == 70

\* the parser without the confidence rule
EnforceConfidenceMutant(action, confidence) == action

\* "Enforce confidence rule": confidence and action are known to be a
\* number and a text here
EnforceConfidence(action, confidence) ==
    IF confidence.n < ConfidenceThreshold THEN "WAIT" ELSE action

(***************************************************************************)
(* WyckoffAIEngine._parse_response.  It catches json.JSONDecodeError only: *)
(* .upper() of a non-text action is an AttributeError and a comparison of  *)
(* a non-number with 70 a TypeError, and both leave the function.          *)
(***************************************************************************)
ParseResponse(text) ==
    LET m == JsonMatch(text) IN
    IF m = <<0, 0>>
    THEN Returned(GetWaitSignal(Str("Khong parse duoc JSON tu AI")))
    ELSE
      LET body == SubSeq(text, m[1] + 1, m[2] - 1) IN
      IF ~JsonDecodes(body)
      THEN Returned(GetWaitSignal(Str("Loi parse JSON")))
      ELSE
        LET rawAction == DictGet(body, "action", Str("WAIT"))
            confidence == DictGet(body, "confidence", Num(0))
        IN
        IF ~IsStr(rawAction)
        THEN Raised("object has no attribute 'upper'")
        ELSE IF ~IsNum(confidence)
        THEN Raised("'<' not supported between instances")
        ELSE Returned(
          [ action |-> Str(EnforceConfidence(Upper(rawAction.s), confidence)),
            wyckoff_phase |-> DictGet(body, "wyckoff_phase", Str("UNKNOWN")),
            event_detected |-> DictGet(body, "event_detected", Str("NONE")),
            smc_trigger |-> DictGet(body, "smc_trigger", Str("NONE")),
            entry |-> DictGet(body, "entry", Null),
            stoploss |-> DictGet(body, "stoploss", Null),
            takeprofit |-> DictGet(body, "takeprofit", Null),
            confidence |-> confidence,
            reason |-> DictGet(body, "reason", Str("Khong co ly do cu the")) ])

(***************************************************************************)
(* WyckoffAIEngine.analyze with a configured model: the try block around   *)
(* generate_content and _parse_response, and its except Exception handler. *)
(* The messages of the model are shorter than the 50 characters kept.      *)
(***************************************************************************)
AnalyzeOutcome(resp) ==
    IF resp.kind = "exc"
    THEN Returned(GetWaitSignal(FStr("Loi AI: ", resp.msg)))
    ELSE LET r == ParseResponse(resp.text) IN
         IF r.kind = "raise"
         THEN Returned(GetWaitSignal(FStr("Loi AI: ", r.msg)))
         ELSE r

(***************************************************************************)
(* WyckoffAIEngine._get_demo_signal: wait is random.random() < 0.6, side   *)
(* is random.choice(['BUY', 'SELL']), conf is random.randint(72, 88).      *)
(***************************************************************************)
DemoConfidence == 72..88

GetDemoSignal(wait, side, conf) ==
    IF wait
    THEN GetWaitSignal(Str("Demo mode: Khong co tin hieu ro rang"))
    ELSE IF side = "BUY"
    THEN [ action |-> Str("BUY"),
           wyckoff_phase |-> Str("ACCUMULATION"),
           event_detected |-> Str("SPRING"),
           smc_trigger |-> Str("LIQUIDITY_SWEEP"),
           entry |-> Num(2620),
           stoploss |-> Num(2620 - 8),
           takeprofit |-> Num(2620 + 15),
           confidence |-> Num(conf),
           reason |-> Str("Demo: Phat hien Spring tai vung ho tro + Liquidity sweep") ]
    ELSE [ action |-> Str("SELL"),
           wyckoff_phase |-> Str("DISTRIBUTION"),
           event_detected |-> Str("UPTHRUST"),
           smc_trigger |-> Str("ORDER_BLOCK"),
           entry |-> Num(2620),
           stoploss |-> Num(2620 + 8),
           takeprofit |-> Num(2620 - 15),
           confidence |-> Num(conf),
           reason |-> Str("Demo: Phat hien Upthrust tai Order Block bearish") ]

(***************************************************************************)
(* Engine actions                                                          *)
(***************************************************************************)
\* analyze() with self.model set: one invocation of the model, then the parse
Analyze ==
    /\ pc = "idle"
    /\ model
    /\ \E resp \in Responses :
         /\ response' = resp
         /\ result' = AnalyzeOutcome(resp)
    /\ pc' = "returned"
    /\ UNCHANGED <<model, storeVars, indVars, poolVars, threadVars>>

\* analyze() with self.model None: the offline/demo path
AnalyzeDemo ==
    /\ pc = "idle"
    /\ ~model
    /\ \E wait \in BOOLEAN, side \in {"BUY", "SELL"}, conf \in DemoConfidence :
         result' = Returned(GetDemoSignal(wait, side, conf))
    /\ response' = NoResponse
    /\ pc' = "returned"
    /\ UNCHANGED <<model, storeVars, indVars, poolVars, threadVars>>

\* the caller takes the Decision; the engine keeps nothing between calls
NextCall ==
    /\ pc = "returned"
    /\ pc' = "idle"
    /\ response' = NoResponse
    /\ result' = NoResult
    /\ UNCHANGED <<model, storeVars, indVars, poolVars, threadVars>>

(***************************************************************************)
(* FirebaseService                                                         *)
(***************************************************************************)
\* most records saved by one instance (remote and local together)
MaxTrades == 2
\* most external signals saved
MaxSignals == 1
\* number of readings of the wall clock in one run
MaxClock == 3

\* The probe of __init__: an HTTP status, or an exception of requests.get
ProbeOutcomes == { [status |-> 200], [status |-> 404], [exc |-> "ConnectionError"] }

\* a probe that takes any HTTP answer for a reachable store
ProbeInitializedMutant(p) == "status" \in DOMAIN p

\* __init__: self.initialized after the probe
ProbeInitialized(p) == "status" \in DOMAIN p /\ p.status = 200

\* What the network does to one request: "ok" is a 200/201 answer with a
\* JSON body; "fail" is any other status, a transport error or a timeout,
\* with the request not applied by the server
NetOutcomes == {"ok", "fail"}

\* What the network does to the POST of save_signal: besides the two above,
\* "lost" is a request the server carried out whose answer the caller does
\* not get as a result with a 'name' (it does not arrive within the
\* timeout, or its body is not the store's JSON)
PostOutcomes == NetOutcomes \cup {"lost"}

\* ids: a text with a prefix and a number.  The remote store assigns push
\* keys ("-N..."), in creation order; save_signal makes f"local_{n}"
RemoteKey(n) == [p |-> "-N", n |-> n]
LocalId(n) == [p |-> "local_", n |-> n]
\* trade_id.startswith('local_')
IsLocalId(id) == id.p = "local_"

\* a request issued, with what the network did to it
Req(method, coll, net) == [m |-> method, path |-> coll, net |-> net]

\* dict.get(key, default)
Get(d, key, default) == IF key \in DOMAIN d THEN d[key] ELSE default

\* the dict after a PATCH: the fields of upd written over those of rec
Patch(rec, upd) ==
    [k \in DOMAIN rec \cup DOMAIN upd |-> IF k \in DOMAIN upd THEN upd[k] ELSE rec[k]]

Min(a, b) == IF a < b THEN a ELSE b
Max(a, b) == IF a > b THEN a ELSE b

\* s[:n]
SliceTo(s, n) ==
    IF n >= 0 THEN SubSeq(s, 1, Min(n, Len(s)))
    ELSE SubSeq(s, 1, Max(Len(s) + n, 0))

\* s[-n:], for n >= 0: -0 is 0, and s[0:] is all of s
SliceLast(s, n) ==
    IF n = 0 THEN SubSeq(s, 1, Len(s))
    ELSE SubSeq(s, Max(Len(s) - n, 0) + 1, Len(s))

\* x.get('timestamp', ''): the empty text sorts below every timestamp
TimestampOf(r) == IF "timestamp" \in DOMAIN r THEN r.timestamp ELSE 0

\* list.sort(key=timestamp, reverse=True): descending and stable, records
\* with equal timestamps keep their order
InsertDesc(x, sorted) ==
    LET before == { i \in 1..Len(sorted) : TimestampOf(sorted[i]) <= TimestampOf(x) }
        pos == IF before = {} THEN Len(sorted) + 1
               ELSE CHOOSE i \in before : \A j \in before : i <= j
    IN  SubSeq(sorted, 1, pos - 1) \o <<x>> \o SubSeq(sorted, pos, Len(sorted))

RECURSIVE SortDesc(_)
SortDesc(s) ==
    IF s = <<>> THEN <<>> ELSE InsertDesc(Head(s), SortDesc(Tail(s)))

\* The signals handed to save_signal: a complete Decision, and a dict
\* with most keys missing
FullDecision ==
    [ action |-> Str("BUY"),
      wyckoff_phase |-> Str("ACCUMULATION"),
      event_detected |-> Str("SPRING"),
      smc_trigger |-> Str("FVG"),
      entry |-> Num(2620),
      stoploss |-> Num(2612),
      takeprofit |-> Num(2638),
      confidence |-> Num(75),
      reason |-> Str("Spring tai vung ho tro") ]

PartialSignal == [ action |-> Str("SELL") ]

Signals == {FullDecision, PartialSignal}

\* save_signal: the normalized record
TradeRecord(signal, executed, now) ==
    [ timestamp |-> now,
      action |-> Get(signal, "action", Str("WAIT")),
      entry |-> Get(signal, "entry", Null),
      stoploss |-> Get(signal, "stoploss", Null),
      takeprofit |-> Get(signal, "takeprofit", Null),
      confidence |-> Get(signal, "confidence", Num(0)),
      wyckoff_phase |-> Get(signal, "wyckoff_phase", Str("")),
      event_detected |-> Get(signal, "event_detected", Str("")),
      reason |-> Get(signal, "reason", Str("")),
      executed |-> executed,
      status |-> IF executed THEN "OPEN" ELSE "SIGNAL_ONLY" ]

\* datetime.now(): each reading is later than the one before it
Nows == { n \in {clock + 1} : n <= MaxClock }

\* an early return that does not look at the id
UpdateSkipsMutant(init, id) == ~init

\* update_trade_result: the early return
UpdateSkips(init, id) == ~init \/ IsLocalId(id)

(***************************************************************************)
(* save_signal(signal, executed)                                           *)
(***************************************************************************)
SaveSignal ==
    /\ Len(remoteTrades) + Len(localTrades) < MaxTrades
    /\ \E signal \in Signals, executed \in BOOLEAN, net \in PostOutcomes, now \in Nows :
         LET record == TradeRecord(signal, executed, now)
             posted == initialized /\ net = "ok"
             \* the server stored the record, whatever the caller got back
             applied == initialized /\ net \in {"ok", "lost"}
             \* the buffer the fallback appends to: _init_local_storage
             \* makes an empty one when the instance has none
             buffer == IF hasLocal THEN localTrades ELSE <<>>
         IN
         /\ clock' = now
         /\ call' = [op |-> "save_signal", signal |-> signal, executed |-> executed]
         /\ reqs' = IF initialized THEN <<Req("POST", "trades", net)>> ELSE <<>>
         /\ initialized \/ net = "ok"   \* no request, no network outcome
         /\ remoteTrades' = IF applied THEN Append(remoteTrades, record)
                            ELSE remoteTrades
         /\ IF posted
            THEN /\ ret' = RemoteKey(Len(remoteTrades) + 1)
                 /\ UNCHANGED <<initialized, hasLocal, localTrades>>
            ELSE /\ localTrades' = Append(buffer, record)
                 /\ ret' = LocalId(Len(buffer) + 1)
                 /\ hasLocal' = TRUE
                 \* _init_local_storage also clears self.initialized
                 /\ initialized' = IF hasLocal THEN initialized ELSE FALSE
    /\ UNCHANGED <<probe, remoteSignals,
                   engineVars, indVars, poolVars, threadVars>>

(***************************************************************************)
(* update_trade_result(trade_id, pnl, status='CLOSED')                     *)
(***************************************************************************)
TradeIds == { RemoteKey(i) : i \in 1..Len(remoteTrades) } \cup
            { LocalId(i) : i \in 1..Max(Len(localTrades), 1) }

PnLs == {5, -3}

UpdateTradeResult ==
    /\ \E id \in TradeIds, pnl \in PnLs :
         /\ call' = [op |-> "update_trade_result", id |-> id, pnl |-> pnl, status |-> "CLOSED"]
         /\ ret' = Null
         /\ IF UpdateSkips(initialized, id)
            THEN /\ reqs' = <<>>
                 /\ UNCHANGED <<remoteTrades, clock>>
            ELSE \E net \in NetOutcomes, now \in Nows :
                 /\ clock' = now
                 /\ reqs' = <<Req("PATCH", "trades", net)>>
                 /\ remoteTrades' =
                      IF net = "ok" /\ id.n \in 1..Len(remoteTrades)
                      THEN [remoteTrades EXCEPT ![id.n] =
                              Patch(@, [pnl |-> pnl, status |-> "CLOSED", closed_at |-> now])]
                      ELSE remoteTrades
    /\ UNCHANGED <<probe, initialized, hasLocal, localTrades, remoteSignals,
                   engineVars, indVars, poolVars, threadVars>>

(***************************************************************************)
(* get_trade_history(limit)                                                *)
(***************************************************************************)
\* the limits asked of a history read: none, some, all of a full collection
Limits == 0..MaxTrades

GetTradeHistory ==
    /\ \E limit \in Limits, net \in NetOutcomes :
         \* GET trades answers the collection as a dict, null when it is empty
         LET got == initialized /\ net = "ok" /\ remoteTrades # <<>> IN
         /\ initialized \/ net = "ok"
         /\ call' = [op |-> "get_trade_history", limit |-> limit]
         /\ reqs' = IF initialized THEN <<Req("GET", "trades", net)>> ELSE <<>>
         /\ ret' = IF got THEN SliceTo(SortDesc(remoteTrades), limit)
                   ELSE IF hasLocal THEN SliceLast(localTrades, limit)
                   ELSE <<>>
    /\ UNCHANGED <<probe, initialized, hasLocal, localTrades, remoteTrades,
                   remoteSignals, clock, engineVars, indVars, poolVars, threadVars>>

(***************************************************************************)
(* save_external_signal(signal, ai_analysis)                               *)
(***************************************************************************)
\* a crawled signal (its raw text is shorter than the 200 characters kept)
CrawledSignal ==
    [ source |-> Str("chanA"), symbol |-> Str("XAUUSD"), action |-> Str("SELL"),
      entry |-> Num(4410), stoploss |-> Num(4416), takeprofit |-> Num(4400),
      raw_text |-> Str("Sell limit 4410-4414") ]

ExternalInputs == { CrawledSignal }

AiAnalyses ==
    { Null, [ recommendation |-> Str("FOLLOW"), confidence |-> Num(80),
              reason |-> Str("RR tot") ] }

SignalData(signal, ai, now) ==
    LET base == [ timestamp |-> now,
                  source |-> Get(signal, "source", Str("unknown")),
                  symbol |-> Get(signal, "symbol", Str("XAUUSD")),
                  action |-> Get(signal, "action", Str("N/A")),
                  entry |-> Get(signal, "entry", Num(0)),
                  stoploss |-> Get(signal, "stoploss", Num(0)),
                  takeprofit |-> Get(signal, "takeprofit", Num(0)),
                  status |-> "PENDING",
                  raw_text |-> Get(signal, "raw_text", Str("")) ]
    IN  IF ai = Null THEN base
        ELSE Patch(base, [ ai_recommendation |-> Get(ai, "recommendation", Str("N/A")),
                           ai_confidence |-> Get(ai, "confidence", Num(0)),
                           ai_reason |-> Get(ai, "reason", Str("")) ])

SaveExternalSignal ==
    /\ Len(remoteSignals) < MaxSignals
    /\ \E signal \in ExternalInputs, ai \in AiAnalyses, net \in NetOutcomes, now \in Nows :
         /\ initialized \/ net = "ok"
         /\ clock' = now
         /\ call' = [op |-> "save_external_signal", signal |-> signal, ai |-> ai]
         /\ reqs' = IF initialized THEN <<Req("POST", "external_signals", net)>> ELSE <<>>
         /\ IF initialized /\ net = "ok"
            THEN /\ remoteSignals' = Append(remoteSignals, SignalData(signal, ai, now))
                 /\ ret' = RemoteKey(Len(remoteSignals) + 1)
            ELSE /\ ret' = Null
                 /\ UNCHANGED remoteSignals
    /\ UNCHANGED <<probe, initialized, hasLocal, localTrades, remoteTrades,
                   engineVars, indVars, poolVars, threadVars>>

(***************************************************************************)
(* get_external_signals(source, limit)                                     *)
(***************************************************************************)
Sources == { Null, Str("chanA") }

SignalLimits == 0..MaxSignals

\* for key, value in result.items(): value['id'] = key
WithIds(coll) == [ i \in 1..Len(coll) |-> Patch(coll[i], [id |-> RemoteKey(i)]) ]

RECURSIVE FilterSource(_, _)
FilterSource(s, source) ==
    IF s = <<>> THEN <<>>
    ELSE IF source # Null /\ Get(Head(s), "source", Null) # source
    THEN FilterSource(Tail(s), source)
    ELSE <<Head(s)>> \o FilterSource(Tail(s), source)

GetExternalSignals ==
    /\ \E source \in Sources, limit \in SignalLimits, net \in NetOutcomes :
         /\ initialized \/ net = "ok"
         /\ call' = [op |-> "get_external_signals", source |-> source, limit |-> limit]
         /\ reqs' = IF initialized THEN <<Req("GET", "external_signals", net)>> ELSE <<>>
         /\ ret' = IF initialized /\ net = "ok"
                   THEN SliceTo(SortDesc(FilterSource(WithIds(remoteSignals), source)), limit)
                   ELSE <<>>
    /\ UNCHANGED <<probe, initialized, hasLocal, localTrades, remoteTrades,
                   remoteSignals, clock, engineVars, indVars, poolVars, threadVars>>

(***************************************************************************)
(* update_signal_result(signal_id, result, pips)                           *)
(***************************************************************************)
\* None, and the keys save_external_signal returned
SignalIds == { Null } \cup { RemoteKey(i) : i \in 1..Len(remoteSignals) }

SignalResults == {"WIN", "LOSS"}

UpdateSignalResult ==
    /\ \E id \in SignalIds, res \in SignalResults :
         /\ call' = [op |-> "update_signal_result", id |-> id, result |-> res]
         /\ ret' = Null
         /\ IF ~initialized \/ id = Null
            THEN /\ reqs' = <<>>
                 /\ UNCHANGED <<remoteSignals, clock>>
            ELSE \E net \in NetOutcomes, now \in Nows :
                 /\ clock' = now
                 /\ reqs' = <<Req("PATCH", "external_signals", net)>>
                 /\ remoteSignals' =
                      IF net = "ok"
                      THEN [remoteSignals EXCEPT ![id.n] =
                              Patch(@, [status |-> res, pips_result |-> 30, closed_at |-> now])]
                      ELSE remoteSignals
    /\ UNCHANGED <<probe, initialized, hasLocal, localTrades, remoteTrades,
                   engineVars, indVars, poolVars, threadVars>>

(***************************************************************************)
(* log_event(event_type, message): the entry, timestamp included, goes to  *)
(* logs/, a collection nothing reads back, so the model keeps neither      *)
(***************************************************************************)
LogEvent ==
    /\ call' = [op |-> "log_event"]
    /\ ret' = Null
    /\ \E net \in NetOutcomes :
         /\ initialized \/ net = "ok"
         /\ reqs' = IF initialized THEN <<Req("POST", "logs", net)>> ELSE <<>>
    /\ UNCHANGED <<probe, initialized, hasLocal, localTrades, remoteTrades,
                   remoteSignals, clock, engineVars, indVars, poolVars, threadVars>>

\* no indicator function was called
IndIdle ==
    /\ df = <<>>
    /\ indCall = Null
    /\ indRet = Null

\* nothing was ever submitted to _executor
PoolIdle ==
    /\ tasks = <<>>
    /\ queue = <<>>
    /\ running = {}

\* the threads of the process that call save_signal
Threads == {"A", "B"}
\* a thread: the line of save_signal it is at, the record it built, the id
\* it returned
Thread(at, record, id) == [at |-> at, record |-> record, ret |-> id]

\* no thread is inside save_signal
ThreadsIdle ==
    /\ threads = [t \in Threads |-> Thread("idle", Null, Null)]
    /\ issued = <<>>

StoreIdle ==
    /\ probe = [status |-> 200]
    /\ initialized = TRUE
    /\ hasLocal = FALSE
    /\ localTrades = <<>>
    /\ remoteTrades = <<>>
    /\ remoteSignals = <<>>
    /\ clock = 0
    /\ call = [op |-> "__init__"]
    /\ ret = Null
    /\ reqs = <<>>

\* WyckoffAIEngine.__init__: self.model is set iff the library is there,
\* the key is given and the configuration did not fail
InitEngine ==
    /\ model \in BOOLEAN
    /\ pc = "idle"
    /\ response = NoResponse
    /\ result = NoResult
    /\ StoreIdle
    /\ IndIdle
    /\ PoolIdle
    /\ ThreadsIdle

NextEngine == Analyze \/ AnalyzeDemo \/ NextCall

SpecEngine == InitEngine /\ [][NextEngine]_vars

EngineIdle ==
    /\ model = FALSE
    /\ pc = "idle"
    /\ response = NoResponse
    /\ result = NoResult

\* FirebaseService.__init__: the probe decides the mode; both failure
\* branches call _init_local_storage
Init ==
    /\ probe \in ProbeOutcomes
    /\ initialized = ProbeInitialized(probe)
    /\ hasLocal = ~ProbeInitialized(probe)
    /\ localTrades = <<>>
    /\ remoteTrades = <<>>
    /\ remoteSignals = <<>>
    /\ clock = 0
    /\ call = [op |-> "__init__"]
    /\ ret = Null
    /\ reqs = <<>>
    /\ EngineIdle
    /\ IndIdle
    /\ PoolIdle
    /\ ThreadsIdle

Next ==
    \/ SaveSignal
    \/ UpdateTradeResult
    \/ GetTradeHistory
    \/ SaveExternalSignal
    \/ GetExternalSignals
    \/ UpdateSignalResult
    \/ LogEvent

Spec == Init /\ [][Next]_vars

(***************************************************************************)
(* Properties of WyckoffAIEngine.analyze, checked under SpecEngine         *)
(***************************************************************************)
Actions == { Str("BUY"), Str("SELL"), Str("WAIT") }

\* C1: every Decision analyze returns, on every path, has action WAIT
\* whenever its confidence is below 70.
C1_ConfidenceGate ==
    (pc = "returned" /\ result.kind = "ok") =>
        ( (IsNum(result.val.confidence) /\ result.val.confidence.n < 70)
            => result.val.action = Str("WAIT") )

\* the model answers BUY with confidence 50 and the Decision says WAIT
C1_Witness ==
    /\ pc = "returned"
    /\ response = TextResponse(<<LBrace, Member("action", Str("BUY")),
                                 Member("confidence", Num(50)), RBrace>>)
    /\ result.kind = "ok"
    /\ result.val.action = Str("WAIT")
    /\ result.val.confidence = Num(50)

\* C4: every returned Decision is ACTIONABLE (BUY or SELL with confidence
\* at least 70) or WAIT; the action is always one of BUY, SELL, WAIT.
C4_TwoOutcomes ==
    pc = "returned" =>
        /\ result.kind = "ok"
        /\ result.val.action \in Actions
        /\ result.val.action \in { Str("BUY"), Str("SELL") } =>
              (IsNum(result.val.confidence) /\ result.val.confidence.n >= 70)

\* the response text holds a brace-delimited object
HasBraceObject(text) ==
    \E i, j \in 1..Len(text) :
        /\ i < j
        /\ text[i] = LBrace
        /\ text[j] = RBrace
        /\ \A k \in (i+1)..(j-1) : text[k] # LBrace /\ text[k] # RBrace

\* the object the parser locates does not decode
LocatedObjectUndecodable(text) ==
    /\ HasBraceObject(text)
    /\ LET m == JsonMatch(text) IN
       \E k \in (m[1]+1)..(m[2]-1) : text[k] \notin Members

\* the failures C5 is about: the invocation raised, the text holds no
\* object, or the located object does not decode
ParseOrInvokeFailure(resp) ==
    \/ resp.kind = "exc"
    \/ resp.kind = "text" /\ ~HasBraceObject(resp.text)
    \/ resp.kind = "text" /\ LocatedObjectUndecodable(resp.text)

IsCanonicalWait(d) ==
    /\ d.action = Str("WAIT")
    /\ d.confidence = Num(0)
    /\ d.entry = Null
    /\ d.stoploss = Null
    /\ d.takeprofit = Null
    /\ NonEmptyText(d.reason)

\* C5: when the response holds no brace-delimited object, or the located
\* object fails to decode, or the invocation raises, analyze returns (and
\* does not raise) the canonical WAIT decision: action WAIT, confidence 0,
\* entry, stoploss and takeprofit null, a non-empty reason.
C5_FailureIsCanonicalWait ==
    (pc = "returned" /\ model /\ ParseOrInvokeFailure(response)) =>
        (result.kind = "ok" /\ IsCanonicalWait(result.val))

\* an object is located between prose and does not decode
C5_Witness ==
    /\ pc = "returned"
    /\ response = TextResponse(<<Prose, LBrace, Prose, RBrace>>)
    /\ result = Returned(GetWaitSignal(Str("Loi parse JSON")))

(***************************************************************************)
(* Properties of FirebaseService, checked under Spec                       *)
(***************************************************************************)
ProbeOk == [status |-> 200]

\* C2: the mode is chosen by the probe at construction and no later
\* operation changes it: an instance whose probe succeeded is REMOTE after
\* any sequence of operations, failed remote requests included.
C2_ModeFixedAtConstruction == (probe = ProbeOk) => initialized

\* C3: an instance whose probe got a non-200 answer or a transport error
\* is LOCAL for its whole lifetime, and none of its operations issues a
\* remote request.
C3_LocalIsPermanent ==
    (probe # ProbeOk) => (~initialized /\ reqs = <<>>)

\* a LOCAL instance has saved a record and was then asked to update an
\* external signal
C3_Witness ==
    /\ probe = [exc |-> "ConnectionError"]
    /\ localTrades # <<>>
    /\ call.op = "update_signal_result"

\* C6: an external signal is PENDING when saved, moves only from PENDING
\* to WIN or LOSS, and once WIN or LOSS never changes again.
C6_StatusMonotone ==
    [][ /\ \A i \in 1..Len(remoteSignals) :
             /\ remoteSignals[i].status \in {"WIN", "LOSS"}
                  => remoteSignals'[i].status = remoteSignals[i].status
             /\ remoteSignals'[i].status \in {"PENDING", "WIN", "LOSS"}
        /\ \A i \in (Len(remoteSignals)+1)..Len(remoteSignals') :
             remoteSignals'[i].status = "PENDING" ]_vars

\* C7: a trade record is created OPEN when executed and SIGNAL_ONLY
\* otherwise, and once CLOSED it stays CLOSED with its first pnl under any
\* later update_trade_result.
C7_ClosedOnce ==
    [][ /\ \A i \in 1..Len(remoteTrades) :
             remoteTrades[i].status = "CLOSED" =>
                 /\ remoteTrades'[i].status = "CLOSED"
                 /\ remoteTrades'[i].pnl = remoteTrades[i].pnl
        /\ \A i \in (Len(remoteTrades)+1)..Len(remoteTrades') :
             remoteTrades'[i].status =
                 IF remoteTrades'[i].executed THEN "OPEN" ELSE "SIGNAL_ONLY" ]_vars

DecisionKeys ==
    { "action", "wyckoff_phase", "event_detected", "smc_trigger", "entry",
      "stoploss", "takeprofit", "confidence", "reason" }

\* C8: in REMOTE mode, get_trade_history(1) right after a successful
\* save_signal(x) of a Decision x returns (when its read succeeds) exactly
\* one record, whose nine decision fields equal those of x.
C8_RoundTrip ==
    [][ ( /\ call.op = "save_signal"
          /\ ~IsLocalId(ret)
          /\ DOMAIN call.signal = DecisionKeys
          /\ call'.op = "get_trade_history"
          /\ call'.limit = 1
          /\ reqs' # <<>>
          /\ reqs'[1].net = "ok" )
        => ( /\ Len(ret') = 1
             /\ \A k \in DecisionKeys :
                  k \in DOMAIN ret'[1] /\ ret'[1][k] = call.signal[k] ) ]_vars

\* C9: a LOCAL instance's save_signal returns a 'local_' id, and
\* update_trade_result with a 'local_' id, in either mode, issues no
\* request, changes nothing of the store or the instance, and returns.
C9_LocalIdNoOp ==
    [][ /\ (call'.op = "save_signal" /\ ~initialized) => IsLocalId(ret')
        /\ (call'.op = "update_trade_result" /\ IsLocalId(call'.id)) =>
              /\ reqs' = <<>>
              /\ ret' = Null
              /\ UNCHANGED <<initialized, hasLocal, localTrades, remoteTrades,
                             remoteSignals, clock>> ]_vars

\* a REMOTE instance holding a record was asked to close a 'local_' id
C9_Witness ==
    /\ call.op = "update_trade_result"
    /\ IsLocalId(call.id)
    /\ initialized
    /\ remoteTrades # <<>>

\* the records a history read has to answer from: the local buffer of a
\* LOCAL instance, the remote collection when it was read, else nothing
StoredTrades ==
    IF ~initialized THEN localTrades
    ELSE IF reqs # <<>> /\ reqs[1].net = "ok" THEN remoteTrades
    ELSE <<>>

\* C10: get_trade_history(limit), REMOTE or LOCAL, limit >= 0, returns the
\* first `limit` records of the stored records sorted newest first; an
\* unreachable store or an empty buffer gives the empty list.
C10_HistoryNewestFirst ==
    call.op = "get_trade_history" =>
        ret = SliceTo(SortDesc(StoredTrades), call.limit)

(***************************************************************************)
(* get_daily_stats and get_signal_stats, run under SpecStats: the store    *)
(* holds any collections earlier saves and updates can have left in it,    *)
(* and the two readers are called on it.                                   *)
(***************************************************************************)
\* most trade records, and most external signals, in the store
MaxStoredTrades == 3
MaxStoredSignals == 2
\* readings of the clock that fall on one calendar day
ReadingsPerDay == 2

\* datetime.now().strftime("%Y-%m-%d"), and the date an isoformat
\* timestamp starts with
DayOf(t) == t \div ReadingsPerDay

\* get_daily_stats: get_trade_history(100); get_signal_stats: limit=100
DailyWindow == 100
SignalWindow == 100

\* a Python float that is the quotient num / den
Frac(num, den) == [num |-> num, den |-> den]

\* round(num / den, 1), in tenths: to the nearest tenth, an exact tie to
\* the even one
RoundTenths(num, den) ==
    LET q == (10 * num) \div den
        r == (10 * num) % den
    IN  IF 2 * r < den THEN q
        ELSE IF 2 * r > den THEN q + 1
        ELSE IF q % 2 = 0 THEN q ELSE q + 1

RECURSIVE SumOf(_, _, _)
\* sum(t.get(key, 0) for t in s)
SumOf(s, key, default) ==
    IF s = <<>> THEN 0
    ELSE Get(Head(s), key, default) + SumOf(Tail(s), key, default)

\* what get_trade_history(limit) returns when the network does `net`
TradeHistory(limit, net) ==
    IF initialized /\ net = "ok" /\ remoteTrades # <<>>
    THEN SliceTo(SortDesc(remoteTrades), limit)
    ELSE IF hasLocal THEN SliceLast(localTrades, limit)
    ELSE <<>>

\* what get_external_signals(source, limit) returns
ExternalSignals(source, limit, net) ==
    IF initialized /\ net = "ok"
    THEN SliceTo(SortDesc(FilterSource(WithIds(remoteSignals), source)), limit)
    ELSE <<>>

\* a trade record as save_signal wrote it at time ts, closed with the pnl
\* in `closed` (<<>>: update_trade_result was not called on it)
StoredTrade(ts, closed) ==
    LET rec == TradeRecord(PartialSignal, TRUE, ts) IN
    IF closed = <<>> THEN rec
    ELSE Patch(rec, [pnl |-> closed[1], status |-> "CLOSED", closed_at |-> ts])

ClosedOptions == { <<>>, <<0>>, <<5>>, <<-3>> }

\* an external signal saved at time ts, with the status it has now
StoredSignal(ts, status) ==
    LET rec == SignalData(CrawledSignal, Null, ts) IN
    IF status = "PENDING" THEN rec
    ELSE Patch(rec, [status |-> status, pips_result |-> 30, closed_at |-> ts])

StoredTradeLists ==
    UNION { { [i \in 1..n |-> StoredTrade(i, c[i])] : c \in [1..n -> ClosedOptions] }
            : n \in 0..MaxStoredTrades }

StoredSignalLists ==
    UNION { { [i \in 1..n |-> StoredSignal(i, st[i])] :
                st \in [1..n -> {"PENDING", "WIN", "LOSS"}] }
            : n \in 0..MaxStoredSignals }

\* the records a LOCAL instance buffers were never closed
LocalTradeLists ==
    { [i \in 1..n |-> StoredTrade(i, <<>>)] : n \in 0..MaxStoredTrades }

InitStats ==
    /\ initialized \in BOOLEAN
    /\ hasLocal = ~initialized
    /\ probe = IF initialized THEN [status |-> 200] ELSE [status |-> 404]
    /\ remoteTrades \in StoredTradeLists
    /\ remoteSignals \in StoredSignalLists
    /\ localTrades \in LocalTradeLists
    /\ initialized => localTrades = <<>>
    /\ ~initialized => (remoteTrades = <<>> /\ remoteSignals = <<>>)
    /\ clock \in 0..MaxStoredTrades
    /\ clock >= Len(remoteTrades)
    /\ clock >= Len(localTrades)
    /\ clock >= Len(remoteSignals)
    /\ call = [op |-> "__init__"]
    /\ ret = Null
    /\ reqs = <<>>
    /\ EngineIdle
    /\ IndIdle
    /\ PoolIdle
    /\ ThreadsIdle

(***************************************************************************)
(* get_daily_stats()                                                       *)
(***************************************************************************)
GetDailyStats ==
    /\ \E net \in NetOutcomes :
         LET today == DayOf(clock)
             trades == TradeHistory(DailyWindow, net)
             IsToday(t) == "timestamp" \in DOMAIN t /\ DayOf(t.timestamp) = today
             daily_trades == SelectSeq(trades, IsToday)
             Won(t) == Get(t, "pnl", 0) > 0
             Lost(t) == Get(t, "pnl", 0) < 0
             wins == Len(SelectSeq(daily_trades, Won))
             losses == Len(SelectSeq(daily_trades, Lost))
         IN
         /\ initialized \/ net = "ok"
         /\ call' = [op |-> "get_daily_stats"]
         /\ reqs' = IF initialized THEN <<Req("GET", "trades", net)>> ELSE <<>>
         /\ ret' = [ date |-> today,
                     total_trades |-> Len(daily_trades),
                     wins |-> wins,
                     losses |-> losses,
                     winrate |-> IF daily_trades # <<>>
                                 THEN Frac(wins * 100, Len(daily_trades))
                                 ELSE Frac(0, 1),
                     \* the pnl values have no more than two decimals
                     pnl |-> SumOf(daily_trades, "pnl", 0) ]
    /\ UNCHANGED <<probe, initialized, hasLocal, localTrades, remoteTrades,
                   remoteSignals, clock, engineVars, indVars, poolVars, threadVars>>

(***************************************************************************)
(* get_signal_stats(source)                                                *)
(***************************************************************************)
GetSignalStats ==
    /\ \E source \in Sources, net \in NetOutcomes :
         LET signals == ExternalSignals(source, SignalWindow, net)
             IsWin(x) == Get(x, "status", "") = "WIN"
             IsLoss(x) == Get(x, "status", "") = "LOSS"
             IsPending(x) == Get(x, "status", "") = "PENDING"
             wins == Len(SelectSeq(signals, IsWin))
             losses == Len(SelectSeq(signals, IsLoss))
         IN
         /\ initialized \/ net = "ok"
         /\ call' = [op |-> "get_signal_stats", source |-> source]
         /\ reqs' = IF initialized THEN <<Req("GET", "external_signals", net)>> ELSE <<>>
         /\ ret' = [ total |-> Len(signals),
                     wins |-> wins,
                     losses |-> losses,
                     pending |-> Len(SelectSeq(signals, IsPending)),
                     win_rate |-> IF wins + losses > 0
                                  THEN Frac(RoundTenths(wins * 100, wins + losses), 10)
                                  ELSE Frac(0, 10),
                     \* the pips values have no more than one decimal
                     total_pips |-> SumOf(signals, "pips_result", 0) ]
    /\ UNCHANGED <<probe, initialized, hasLocal, localTrades, remoteTrades,
                   remoteSignals, clock, engineVars, indVars, poolVars, threadVars>>

NextStats == GetDailyStats \/ GetSignalStats

SpecStats == InitStats /\ [][NextStats]_vars

\* the reported rate differs from 100 * w / (w + l) by no more than
\* `tol` twentieths (0: it is that quotient; 1: it is that quotient to
\* one decimal)
RateIs(rate, w, l, tol) ==
    LET d == rate.num * (w + l) - 100 * w * rate.den
        abs == IF d < 0 THEN -d ELSE d
    IN  20 * abs <= tol * rate.den * (w + l)

\* C11: get_daily_stats and get_signal_stats both report
\* win_rate = 100 * wins / (wins + losses) over the decided records they
\* counted, and 0 when there are none, however many undecided records are
\* in the window.
C11_WinRateOverDecided ==
    /\ call.op = "get_daily_stats" =>
         IF ret.wins + ret.losses = 0 THEN ret.winrate.num = 0
         ELSE RateIs(ret.winrate, ret.wins, ret.losses, 0)
    /\ call.op = "get_signal_stats" =>
         IF ret.wins + ret.losses = 0 THEN ret.win_rate.num = 0
         ELSE RateIs(ret.win_rate, ret.wins, ret.losses, 1)

(***************************************************************************)
(* analyze_external_signal and analyze_chart_image, run under SpecAdvisor  *)
(***************************************************************************)
\* a JSON array / Python list
List(items) == [t |-> "list", items |-> items]

\* members the model may put in its answer to the two advisory prompts
AdvisorMembers ==
    { Member("recommendation", Str("FOLLOW")),
      Member("recommendation", Str("HOLD")),
      Member("confidence", Num(80)),
      Member("trend", Str("UPTREND")),
      Member("reason", Str("RR tot")) }

AdvisorTexts == SeqsUpTo({LBrace, RBrace, Prose} \cup AdvisorMembers, MaxLen)

AdvisorResponses ==
    { TextResponse(t) : t \in AdvisorTexts } \cup
    { ExcResponse(m) : m \in InvokeErrors }

(***************************************************************************)
(* WyckoffAIEngine._parse_signal_analysis: the bare except swallows the    *)
(* decode error and the function falls through to the SKIP result          *)
(***************************************************************************)
ParseSignalAnalysis(text, original_signal) ==
    LET m == JsonMatch(text)
        body == SubSeq(text, m[1] + 1, m[2] - 1)
    IN
    IF m # <<0, 0>> /\ JsonDecodes(body)
    THEN [ recommendation |-> DictGet(body, "recommendation", Str("SKIP")),
           confidence |-> DictGet(body, "confidence", Num(0)),
           risk_reward |-> DictGet(body, "risk_reward", Str("N/A")),
           reason |-> DictGet(body, "reason", Str("Khong co nhan dinh")),
           original_signal |-> original_signal ]
    ELSE [ recommendation |-> Str("SKIP"),
           confidence |-> Num(0),
           reason |-> Str("Khong parse duoc response"),
           original_signal |-> original_signal ]

\* analyze_external_signal with no model configured
NoModelSignalAnalysis ==
    [ recommendation |-> Str("UNKNOWN"),
      confidence |-> Num(0),
      reason |-> Str("AI khong kha dung") ]

\* analyze_external_signal with a model: the try block and its handler
SignalAnalysisOutcome(resp, signal_data) ==
    IF resp.kind = "exc"
    THEN [ recommendation |-> Str("SKIP"),
           confidence |-> Num(0),
           reason |-> FStr("Loi AI: ", resp.msg) ]
    ELSE ParseSignalAnalysis(resp.text, signal_data)

AnalyzeExternalSignal ==
    /\ pc = "idle"
    /\ model
    /\ \E resp \in AdvisorResponses, signal_data \in ExternalInputs :
         /\ response' = resp
         /\ result' = Returned(SignalAnalysisOutcome(resp, signal_data))
    /\ pc' = "returned_signal"
    /\ UNCHANGED <<model, storeVars, indVars, poolVars, threadVars>>

AnalyzeExternalSignalNoModel ==
    /\ pc = "idle"
    /\ ~model
    /\ response' = NoResponse
    /\ result' = Returned(NoModelSignalAnalysis)
    /\ pc' = "returned_signal"
    /\ UNCHANGED <<model, storeVars, indVars, poolVars, threadVars>>

\* the text holds a brace-delimited object with something between its
\* braces that is no JSON member
HoldsUndecodableObject(text) ==
    /\ HasBraceObject(text)
    /\ LET m == JsonMatch(text) IN
       \E k \in (m[1]+1)..(m[2]-1) : text[k] \notin AdvisorMembers

\* C12: when the invocation raises, the response holds no decodable
\* brace-delimited object, or no model is available, analyze_external_signal
\* returns recommendation SKIP, confidence 0 and a non-empty reason; and
\* every result's recommendation is one of FOLLOW, SKIP, CAUTION.
C12_FailureIsSkip ==
    pc = "returned_signal" =>
        /\ result.kind = "ok"
        /\ result.val.recommendation \in { Str("FOLLOW"), Str("SKIP"), Str("CAUTION") }
        /\ ( \/ ~model
             \/ response.kind = "exc"
             \/ response.kind = "text" /\ ~HasBraceObject(response.text)
             \/ response.kind = "text" /\ HoldsUndecodableObject(response.text) )
           => /\ result.val.recommendation = Str("SKIP")
              /\ result.val.confidence = Num(0)
              /\ NonEmptyText(result.val.reason)

(***************************************************************************)
(* WyckoffAIEngine.analyze_chart_image                                     *)
(***************************************************************************)
\* requests.get raised a RequestException
DownloadFailed(msg) == [kind |-> "download_exc", msg |-> msg]
\* Image.open raised on what was downloaded
ImageFailed(msg) == [kind |-> "image_exc", msg |-> msg]

\* what the download, the decoding of the image and the model can do
ChartResponses ==
    { DownloadFailed("timeout"), ImageFailed("cannot identify image file") }
    \cup AdvisorResponses

\* the two handlers at the end of analyze_chart_image
ChartFailure(prefix, msg) ==
    [ trend |-> Str("UNKNOWN"),
      recommendation |-> Str("SKIP"),
      confidence |-> Num(0),
      reason |-> FStr(prefix, msg) ]

\* analyze_chart_image with no model configured
NoModelChartAnalysis ==
    [ trend |-> Str("UNKNOWN"),
      support_levels |-> List(<<>>),
      resistance_levels |-> List(<<>>),
      recommendation |-> Str("SKIP"),
      confidence |-> Num(0),
      reason |-> Str("AI khong kha dung") ]

\* analyze_chart_image with a model: the try block and its two handlers.
\* json.loads is not guarded here: its error reaches `except Exception`.
\* The answers of the model are shorter than the 300 characters kept.
ChartOutcome(resp) ==
    IF resp.kind = "download_exc"
    THEN ChartFailure("Khong tai duoc anh: ", resp.msg)
    ELSE IF resp.kind \in {"image_exc", "exc"}
    THEN ChartFailure("Loi phan tich: ", resp.msg)
    ELSE
      LET result_text == resp.text
          m == JsonMatch(result_text)
          body == SubSeq(result_text, m[1] + 1, m[2] - 1)
      IN
      IF m = <<0, 0>>
      THEN [ trend |-> Str("UNKNOWN"),
             support_levels |-> List(<<>>),
             resistance_levels |-> List(<<>>),
             recommendation |-> Str("CAUTION"),
             confidence |-> Num(0),
             reason |-> Str("Khong parse duoc ket qua AI"),
             raw_analysis |-> result_text ]
      ELSE IF ~JsonDecodes(body)
      THEN ChartFailure("Loi phan tich: ", "Expecting property name")
      ELSE [ trend |-> DictGet(body, "trend", Str("UNKNOWN")),
             structure |-> DictGet(body, "structure", Str("NEUTRAL")),
             support_levels |-> DictGet(body, "support_levels", List(<<>>)),
             resistance_levels |-> DictGet(body, "resistance_levels", List(<<>>)),
             pattern |-> DictGet(body, "pattern", Str("")),
             recommendation |-> DictGet(body, "recommendation", Str("CAUTION")),
             confidence |-> DictGet(body, "confidence", Num(50)),
             reason |-> DictGet(body, "reason", Str("Phan tich chart")),
             raw_analysis |-> result_text ]

AnalyzeChartImage ==
    /\ pc = "idle"
    /\ model
    /\ \E resp \in ChartResponses :
         /\ response' = resp
         /\ result' = Returned(ChartOutcome(resp))
    /\ pc' = "returned_chart"
    /\ UNCHANGED <<model, storeVars, indVars, poolVars, threadVars>>

AnalyzeChartImageNoModel ==
    /\ pc = "idle"
    /\ ~model
    /\ response' = NoResponse
    /\ result' = Returned(NoModelChartAnalysis)
    /\ pc' = "returned_chart"
    /\ UNCHANGED <<model, storeVars, indVars, poolVars, threadVars>>

\* the caller takes the advice; the engine keeps nothing between calls
AdvisorReturn ==
    /\ pc \in {"returned_signal", "returned_chart"}
    /\ pc' = "idle"
    /\ response' = NoResponse
    /\ result' = NoResult
    /\ UNCHANGED <<model, storeVars, indVars, poolVars, threadVars>>

NextAdvisor ==
    \/ AnalyzeExternalSignal
    \/ AnalyzeExternalSignalNoModel
    \/ AnalyzeChartImage
    \/ AnalyzeChartImageNoModel
    \/ AdvisorReturn

SpecAdvisor == InitEngine /\ [][NextAdvisor]_vars

ChartFields ==
    { "trend", "structure", "support_levels", "resistance_levels", "pattern",
      "recommendation", "confidence", "reason" }

\* C13: on every path analyze_chart_image returns an object with the full
\* field set (trend, structure, support_levels, resistance_levels, pattern,
\* recommendation, confidence, reason); a download failure gives
\* recommendation SKIP with a reason that is not the parse-failure reason.
C13_ChartResultWellShaped ==
    pc = "returned_chart" =>
        /\ result.kind = "ok"
        /\ ChartFields \subseteq DOMAIN result.val
        /\ response.kind = "download_exc" =>
             /\ result.val.recommendation = Str("SKIP")
             /\ result.val.reason # Str("Khong parse duoc ket qua AI")

(***************************************************************************)
(* Further properties of WyckoffAIEngine.analyze, checked under SpecEngine *)
(***************************************************************************)
\* C14: the confidence of every Decision analyze returns is an integer in
\* 0..100, whatever confidence the JSON of the model carries.
C14_ConfidenceInRange ==
    (pc = "returned" /\ result.kind = "ok") =>
        /\ IsNum(result.val.confidence)
        /\ result.val.confidence.frac = 0
        /\ result.val.confidence.n \in 0..100

\* C15: in every Decision analyze returns, entry, stoploss and takeprofit
\* are all null or all numeric.
C15_PricesAllOrNone ==
    (pc = "returned" /\ result.kind = "ok") =>
        LET prices == { result.val.entry, result.val.stoploss, result.val.takeprofit }
        IN  \/ \A v \in prices : v = Null
            \/ \A v \in prices : IsNum(v)

(***************************************************************************)
(* indicators.py: get_trend, get_rsi_signal, get_macd_signal and           *)
(* get_indicator_summary, run under SpecIndicators on a DataFrame holding  *)
(* any of the indicator columns.  A frame is its set of columns and its    *)
(* rows, oldest first; a cell is a number or NaN.                          *)
(***************************************************************************)
\* most rows of a frame
MaxRows == 2

NaN == [t |-> "nan"]
\* pd.isna
IsNa(v) == v.t = "nan"

\* comparisons of floats: every comparison with NaN is False
Gt(a, b) == IsNum(a) /\ IsNum(b) /\ a.n > b.n
Lt(a, b) == IsNum(a) /\ IsNum(b) /\ a.n < b.n
Ge(a, b) == IsNum(a) /\ IsNum(b) /\ a.n >= b.n
Le(a, b) == IsNum(a) /\ IsNum(b) /\ a.n <= b.n
\* a - b
Sub(a, b) == IF IsNum(a) /\ IsNum(b) THEN Num(a.n - b.n) ELSE NaN

\* df[col].iloc[-1] and df[col].iloc[-2]
Last(d, col) == d.rows[Len(d.rows)][col]
Prev(d, col) == d.rows[Len(d.rows) - 1][col]

\* the frames with columns cols, 1..MaxRows rows and cells from values
Frames(cols, values) ==
    UNION { { [cols |-> cols, rows |-> r] : r \in [1..n -> [cols -> values]] }
            : n \in 1..MaxRows }

\* one-row frames with any of the three columns get_trend reads
TrendFrames ==
    UNION { { [cols |-> cols, rows |-> <<row>>] :
                row \in [cols -> {Num(1), Num(2), Num(3), NaN}] }
            : cols \in SUBSET {"close", "EMA_50", "EMA_200"} }

RsiFrames ==
    Frames({"RSI"}, { Num(25), Num(30), Num(45), Num(50), Num(55), Num(60),
                      Num(70), Num(75), NaN })

MacdFrames == Frames({"MACD", "MACD_Signal"}, {Num(-1), Num(0), Num(1), NaN})

\* frames for the summary: any of four columns, the last row numeric or NaN
SummaryFrames ==
    UNION { Frames(cols, {Num(60), NaN})
            : cols \in SUBSET {"close", "RSI", "EMA_50", "ATR"} }

DataFrames == TrendFrames \cup RsiFrames \cup MacdFrames \cup SummaryFrames

(***************************************************************************)
(* get_trend(df): a missing 'close' column is a KeyError inside the try    *)
(***************************************************************************)
GetTrend(d) ==
    IF "EMA_50" \notin d.cols THEN "UNKNOWN"
    ELSE IF "close" \notin d.cols THEN "UNKNOWN"
    ELSE
      LET current_price == Last(d, "close")
          ema_50 == Last(d, "EMA_50")
          ema_200_col == IF "EMA_200" \in d.cols THEN Last(d, "EMA_200") ELSE ema_50
          ema_200 == IF IsNa(ema_200_col) THEN ema_50 ELSE ema_200_col
      IN
      IF IsNa(current_price) \/ IsNa(ema_50) THEN "UNKNOWN"
      ELSE IF Gt(current_price, ema_50) /\ Gt(current_price, ema_200)
      THEN IF Gt(ema_50, ema_200) THEN "STRONG_UPTREND" ELSE "UPTREND"
      ELSE IF Lt(current_price, ema_50) /\ Lt(current_price, ema_200)
      THEN IF Lt(ema_50, ema_200) THEN "STRONG_DOWNTREND" ELSE "DOWNTREND"
      ELSE "SIDEWAYS"

(***************************************************************************)
(* get_rsi_signal(df, overbought=70, oversold=30)                          *)
(***************************************************************************)
Overbought == 70
Oversold == 30
RsiMidline == 50

\* the momentum tests placed before the threshold tests
RsiOfMutant(rsi, rsi_prev) ==
    IF IsNa(rsi) THEN "UNKNOWN"
    ELSE IF Gt(rsi, Num(RsiMidline)) /\ Gt(rsi, rsi_prev) THEN "BULLISH_MOMENTUM"
    ELSE IF Lt(rsi, Num(RsiMidline)) /\ Lt(rsi, rsi_prev) THEN "BEARISH_MOMENTUM"
    ELSE IF Gt(rsi, Num(Overbought)) THEN "OVERBOUGHT"
    ELSE IF Lt(rsi, Num(Oversold)) THEN "OVERSOLD"
    ELSE "NEUTRAL"

\* get_rsi_signal from the isna test on
RsiOf(rsi, rsi_prev) ==
    IF IsNa(rsi) THEN "UNKNOWN"
    ELSE IF Gt(rsi, Num(Overbought)) THEN "OVERBOUGHT"
    ELSE IF Lt(rsi, Num(Oversold)) THEN "OVERSOLD"
    ELSE IF Gt(rsi, Num(RsiMidline)) /\ Gt(rsi, rsi_prev) THEN "BULLISH_MOMENTUM"
    ELSE IF Lt(rsi, Num(RsiMidline)) /\ Lt(rsi, rsi_prev) THEN "BEARISH_MOMENTUM"
    ELSE "NEUTRAL"

GetRsiSignal(d) ==
    IF "RSI" \notin d.cols THEN "UNKNOWN"
    ELSE LET rsi == Last(d, "RSI")
             rsi_prev == IF Len(d.rows) > 1 THEN Prev(d, "RSI") ELSE rsi
         IN  RsiOf(rsi, rsi_prev)

(***************************************************************************)
(* get_macd_signal(df)                                                     *)
(***************************************************************************)
\* a cross reported whatever the previous bar was
MacdOfMutant(macd, signal, macd_prev, signal_prev) ==
    IF IsNa(macd) \/ IsNa(signal) THEN "UNKNOWN"
    ELSE IF Gt(macd, signal) THEN "BULLISH_CROSS"
    ELSE IF Lt(macd, signal) THEN "BEARISH_CROSS"
    ELSE "BEARISH"

\* get_macd_signal from the isna test on
MacdOf(macd, signal, macd_prev, signal_prev) ==
    IF IsNa(macd) \/ IsNa(signal) THEN "UNKNOWN"
    ELSE IF Gt(macd, signal) /\ Le(macd_prev, signal_prev) THEN "BULLISH_CROSS"
    ELSE IF Lt(macd, signal) /\ Ge(macd_prev, signal_prev) THEN "BEARISH_CROSS"
    ELSE IF Gt(macd, signal) THEN "BULLISH"
    ELSE "BEARISH"

GetMacdSignal(d) ==
    IF "MACD" \notin d.cols \/ "MACD_Signal" \notin d.cols THEN "UNKNOWN"
    ELSE LET macd == Last(d, "MACD")
             signal == Last(d, "MACD_Signal")
             macd_prev == IF Len(d.rows) > 1 THEN Prev(d, "MACD") ELSE macd
             signal_prev == IF Len(d.rows) > 1 THEN Prev(d, "MACD_Signal") ELSE signal
         IN  MacdOf(macd, signal, macd_prev, signal_prev)

(***************************************************************************)
(* get_indicator_summary(df)                                               *)
(***************************************************************************)
\* safe_round(val): None for NaN; the cells carry no more than two decimals
SafeRound(v) == IF IsNa(v) THEN Null ELSE v

\* `if val:` on what safe_round returned: neither None nor 0.0
Truthy(v) == IsNum(v) /\ ~(v.n = 0 /\ v.frac = 0)

\* atr_val * 1.5
TimesOneAndHalf(v) == [t |-> "num", n |-> (15 * v.n) \div 10, frac |-> (15 * v.n) % 10]

\* summary[key] = val
Put(summary, key, val) == Patch(summary, [k \in {key} |-> val])

\* One try block holds every step.  With cells that are numbers or NaN the
\* only step that raises is the first, df['close'] on a frame with no such
\* column (a KeyError): the handler then adds 'error' to a summary that has
\* nothing in it yet, and no later step runs.
GetIndicatorSummary(d) ==
    IF "close" \notin d.cols
    THEN Put(<<>>, "error", Str("'close'"))
    ELSE
      LET price == SafeRound(Last(d, "close"))
          s1 == IF Truthy(price) THEN Put(<<>>, "Current_Price", price) ELSE <<>>
          change == IF Len(d.rows) > 1
                    THEN SafeRound(Sub(Last(d, "close"), Prev(d, "close")))
                    ELSE Null
          s2 == IF change # Null THEN Put(s1, "Change", change) ELSE s1
          rsi_val == IF "RSI" \in d.cols THEN SafeRound(Last(d, "RSI")) ELSE Null
          s3 == IF rsi_val # Null
                THEN Put(Put(s2, "RSI", rsi_val), "RSI_Signal", Str(GetRsiSignal(d)))
                ELSE s2
          s4 == Put(s3, "Trend", Str(GetTrend(d)))
          ema50 == IF "EMA_50" \in d.cols THEN SafeRound(Last(d, "EMA_50")) ELSE Null
          s5 == IF Truthy(ema50) THEN Put(s4, "EMA_50", ema50) ELSE s4
          ema200 == IF "EMA_200" \in d.cols THEN SafeRound(Last(d, "EMA_200")) ELSE Null
          s6 == IF Truthy(ema200) THEN Put(s5, "EMA_200", ema200) ELSE s5
          s7 == Put(s6, "MACD_Signal", Str(GetMacdSignal(d)))
          atr_val == IF "ATR" \in d.cols THEN SafeRound(Last(d, "ATR")) ELSE Null
      IN  IF atr_val # Null
          THEN Put(Put(s7, "ATR", atr_val),
                   "Suggested_SL_Distance", SafeRound(TimesOneAndHalf(atr_val)))
          ELSE s7

(***************************************************************************)
(* Indicator actions: one call of one function on the frame                *)
(***************************************************************************)
CallGetTrend ==
    /\ indCall' = Str("get_trend")
    /\ indRet' = Str(GetTrend(df))
    /\ UNCHANGED <<df, engineVars, storeVars, poolVars, threadVars>>

CallGetRsiSignal ==
    /\ indCall' = Str("get_rsi_signal")
    /\ indRet' = Str(GetRsiSignal(df))
    /\ UNCHANGED <<df, engineVars, storeVars, poolVars, threadVars>>

CallGetMacdSignal ==
    /\ indCall' = Str("get_macd_signal")
    /\ indRet' = Str(GetMacdSignal(df))
    /\ UNCHANGED <<df, engineVars, storeVars, poolVars, threadVars>>

CallGetIndicatorSummary ==
    /\ indCall' = Str("get_indicator_summary")
    /\ indRet' = GetIndicatorSummary(df)
    /\ UNCHANGED <<df, engineVars, storeVars, poolVars, threadVars>>

InitIndicators ==
    /\ df \in DataFrames
    /\ indCall = Null
    /\ indRet = Null
    /\ EngineIdle
    /\ StoreIdle
    /\ PoolIdle
    /\ ThreadsIdle

NextIndicators ==
    \/ CallGetTrend
    \/ CallGetRsiSignal
    \/ CallGetMacdSignal
    \/ CallGetIndicatorSummary

SpecIndicators == InitIndicators /\ [][NextIndicators]_vars

\* the last row has a number in column c
HasNumber(c) == c \in df.cols /\ IsNum(Last(df, c))

\* C16: get_trend gives STRONG_UPTREND / UPTREND when close is above both
\* EMAs (strong when EMA_50 > EMA_200), STRONG_DOWNTREND / DOWNTREND when it
\* is below both (strong when EMA_50 < EMA_200), SIDEWAYS otherwise, and
\* UNKNOWN whenever close, EMA_50 or EMA_200 is missing or NaN.
C16_TrendTable ==
    indCall = Str("get_trend") =>
        IF ~(HasNumber("close") /\ HasNumber("EMA_50") /\ HasNumber("EMA_200"))
        THEN indRet = Str("UNKNOWN")
        ELSE LET c == Last(df, "close").n
                 fast == Last(df, "EMA_50").n
                 slow == Last(df, "EMA_200").n
             IN  indRet = Str(
                   IF c > fast /\ c > slow
                   THEN IF fast > slow THEN "STRONG_UPTREND" ELSE "UPTREND"
                   ELSE IF c < fast /\ c < slow
                   THEN IF fast < slow THEN "STRONG_DOWNTREND" ELSE "DOWNTREND"
                   ELSE "SIDEWAYS")

Sign(n) == IF n > 0 THEN 1 ELSE IF n < 0 THEN -1 ELSE 0

\* C18: with numeric MACD and signal, get_macd_signal reports a cross
\* exactly when the sign of (MACD - signal) on the previous bar differs from
\* its sign on the current bar, BULLISH_CROSS when it is now positive and
\* BEARISH_CROSS when it is now negative; otherwise BULLISH or BEARISH by
\* the current sign; a single row never gives a cross.
C18_MacdCrossOnSignChange ==
    (indCall = Str("get_macd_signal") /\ HasNumber("MACD") /\ HasNumber("MACD_Signal")) =>
        LET cur == Sign(Last(df, "MACD").n - Last(df, "MACD_Signal").n)
            hasPrev == /\ Len(df.rows) > 1
                       /\ IsNum(Prev(df, "MACD"))
                       /\ IsNum(Prev(df, "MACD_Signal"))
            changed == hasPrev /\
                       Sign(Prev(df, "MACD").n - Prev(df, "MACD_Signal").n) # cur
        IN  /\ indRet = Str("BULLISH_CROSS") <=> (changed /\ cur = 1)
            /\ indRet = Str("BEARISH_CROSS") <=> (changed /\ cur = -1)
            /\ (~changed /\ cur = 1) => indRet = Str("BULLISH")
            /\ (~changed /\ cur = -1) => indRet = Str("BEARISH")
            /\ cur = 0 => indRet \in { Str("BULLISH"), Str("BEARISH") }

\* MACD crossed above its signal line between the two bars
C18_Witness ==
    /\ indCall = Str("get_macd_signal")
    /\ Len(df.rows) > 1
    /\ "MACD" \in df.cols /\ "MACD_Signal" \in df.cols
    /\ Prev(df, "MACD") = Num(-1) /\ Prev(df, "MACD_Signal") = Num(0)
    /\ Last(df, "MACD") = Num(1) /\ Last(df, "MACD_Signal") = Num(0)
    /\ indRet = Str("BULLISH_CROSS")

\* C19: get_indicator_summary isolates failures per field: Trend and
\* MACD_Signal, which every frame allows to compute, and RSI when the frame
\* has a numeric RSI, are in the summary even when another field failed,
\* and a failed field leaves an 'error' marker.
C19_FailuresIsolatedPerField ==
    indCall = Str("get_indicator_summary") =>
        /\ "Trend" \in DOMAIN indRet
        /\ "MACD_Signal" \in DOMAIN indRet
        /\ HasNumber("RSI") => "RSI" \in DOMAIN indRet
        /\ "close" \notin df.cols => "error" \in DOMAIN indRet

(***************************************************************************)
(* analyze_async and the module's executor, run under SpecPool.  Each      *)
(* caller is a coroutine of the event loop that calls analyze_async once:  *)
(* loop.run_in_executor(_executor, partial(self.analyze, ...)) submits the *)
(* call to the pool and the coroutine awaits the future.  A worker thread  *)
(* takes the oldest work item when it is free; an item whose future was    *)
(* cancelled before a worker took it is dropped without running.           *)
(* Cancelling the awaiting coroutine cancels the asyncio future, and a     *)
(* callback of the loop then tries to cancel the executor's future, which  *)
(* succeeds only while the item is still queued.                           *)
(***************************************************************************)
\* the coroutines that call analyze_async
MaxCallers == 3
Callers == 1..MaxCallers

\* ThreadPoolExecutor(max_workers=2)
MaxWorkers == 2

\* a pool that starts work whatever number of calls is executing
WorkerFreeMutant(busy) == TRUE

\* a worker thread is idle, or may still be created
WorkerFree(busy) == Cardinality(busy) < MaxWorkers

\* where one caller stands: the coroutine (idle, awaiting, returned,
\* cancelled) and its work item (none, queued, running, finished, cancelled)
Task(caller, job) == [caller |-> caller, job |-> job]

InitPool ==
    /\ tasks = [c \in Callers |-> Task("idle", "none")]
    /\ queue = <<>>
    /\ running = {}
    /\ EngineIdle
    /\ StoreIdle
    /\ IndIdle
    /\ ThreadsIdle

\* analyze_async up to its await: the call is submitted, the coroutine
\* is suspended
Submit(c) ==
    /\ tasks[c].caller = "idle"
    /\ tasks' = [tasks EXCEPT ![c] = Task("awaiting", "queued")]
    /\ queue' = Append(queue, c)
    /\ UNCHANGED <<running, engineVars, storeVars, indVars, threadVars>>

\* a worker takes the oldest item and starts self.analyze
Start(c) ==
    /\ queue # <<>>
    /\ c = Head(queue)
    /\ tasks[c].job = "queued"
    /\ WorkerFree(running)
    /\ queue' = Tail(queue)
    /\ running' = running \cup {c}
    /\ tasks' = [tasks EXCEPT ![c].job = "running"]
    /\ UNCHANGED <<engineVars, storeVars, indVars, threadVars>>

\* a worker takes the oldest item, finds its future cancelled and drops it
Drop(c) ==
    /\ queue # <<>>
    /\ c = Head(queue)
    /\ tasks[c].job = "cancelled"
    /\ WorkerFree(running)
    /\ queue' = Tail(queue)
    /\ UNCHANGED <<tasks, running, engineVars, storeVars, indVars, threadVars>>

\* self.analyze returns on its worker: the worker is free again
Finish(c) ==
    /\ c \in running
    /\ running' = running \ {c}
    /\ tasks' = [tasks EXCEPT ![c].job = "finished"]
    /\ UNCHANGED <<queue, engineVars, storeVars, indVars, threadVars>>

\* the await completes: analyze_async returns the result
Resume(c) ==
    /\ tasks[c] = Task("awaiting", "finished")
    /\ tasks' = [tasks EXCEPT ![c].caller = "returned"]
    /\ UNCHANGED <<queue, running, engineVars, storeVars, indVars, threadVars>>

\* the caller stops awaiting (its task is cancelled, or a wait_for times out)
Cancel(c) ==
    /\ tasks[c].caller = "awaiting"
    /\ tasks' = [tasks EXCEPT ![c].caller = "cancelled"]
    /\ UNCHANGED <<queue, running, engineVars, storeVars, indVars, threadVars>>

\* the loop's callback cancels the executor's future of a cancelled await:
\* Future.cancel() takes effect on an item no worker has taken yet
PropagateCancel(c) ==
    /\ tasks[c] = Task("cancelled", "queued")
    /\ tasks' = [tasks EXCEPT ![c].job = "cancelled"]
    /\ UNCHANGED <<queue, running, engineVars, storeVars, indVars, threadVars>>

NextPool ==
    \E c \in Callers :
        \/ Submit(c)
        \/ Start(c)
        \/ Drop(c)
        \/ Finish(c)
        \/ Resume(c)
        \/ Cancel(c)
        \/ PropagateCancel(c)

\* Every path of analyze ends in a return and the worker threads are
\* scheduled by the operating system: a call that is executing finishes.
SpecPool ==
    /\ InitPool
    /\ [][NextPool]_vars
    /\ \A c \in Callers : WF_vars(Finish(c))

\* C20: with any number of analyze_async callers, at most 2 analyze calls
\* execute at any moment and the others wait in the queue; a caller that
\* stops awaiting does not stop its call once it executes: the call stays
\* on its worker until it finishes, and then the worker is free again.
\* Awaiting suspends the caller only: a caller that has not called yet can
\* submit its call whatever the pool is doing.
C20_TwoWorkersNoCancellation ==
    /\ [](/\ Cardinality(running) <= 2
          /\ \A c \in Callers :
               /\ tasks[c].job = "running" <=> c \in running
               /\ tasks[c].job = "queued" => \E i \in 1..Len(queue) : queue[i] = c
               /\ tasks[c].caller = "idle" => ENABLED Submit(c))
    /\ [][ \A c \in Callers :
             tasks[c].job = "running" =>
                 \/ tasks'[c].job = "running" /\ c \in running'
                 \/ tasks'[c].job = "finished" /\ c \notin running' ]_vars
    /\ \A c \in Callers :
         (tasks[c].job = "running") ~> (tasks[c].job = "finished" /\ c \notin running)

\* two calls execute, a third waits queued, and the caller of an executing
\* call has stopped awaiting
C20_Witness ==
    /\ Cardinality(running) = 2
    /\ queue # <<>>
    /\ \E c \in running : tasks[c] = Task("cancelled", "running")

(***************************************************************************)
(* FirebaseService._make_request(method, path, data)                       *)
(***************************************************************************)
\* the verbs _make_request has a branch for
Verbs == {"GET", "POST", "PUT", "PATCH", "DELETE"}
\* the verbs a caller can pass: the five, and one there is no branch for
Methods == Verbs \cup {"HEAD"}

\* the nodes requested: the trades collection, read and appended to, and a
\* leaf of the configuration, which every verb can address
Targets ==
    { <<m, "config/capital">> : m \in Methods } \cup
    { <<m, "trades">> : m \in {"GET", "POST", "HEAD"} }

\* What requests.<verb>(url, timeout=10) does: it returns a response with a
\* status and a body, or raises.  applied says whether the server carried
\* the request out: it did when it answers 200/201 with its JSON, it did not
\* when it refuses or cannot be connected to, and either is possible when
\* the answer is not the server's JSON or does not arrive in time
Transports ==
    { [status |-> s, body |-> "json", applied |-> TRUE] : s \in {200, 201} } \cup
    { [status |-> 200, body |-> "undecodable", applied |-> a] : a \in BOOLEAN } \cup
    { [status |-> s, body |-> "json", applied |-> FALSE] : s \in {404, 500} } \cup
    { [exc |-> "ConnectionError", applied |-> FALSE] } \cup
    { [exc |-> "Timeout", applied |-> a] : a \in BOOLEAN }

\* the JSON the store answers a request with: the new key for a POST, the
\* node for a GET (null when it is empty), the data written for PUT and
\* PATCH, null for DELETE
ServerJson(method, path, data) ==
    CASE method = "POST" -> [name |-> RemoteKey(Len(remoteTrades) + 1)]
      [] method = "GET" ->
            IF path = "trades"
            THEN (IF remoteTrades = <<>> THEN Null ELSE List(remoteTrades))
            ELSE Num(100)
      [] method \in {"PUT", "PATCH"} -> data
      [] OTHER -> Null

\* the body of the try block: one requests call for a known verb, then the
\* status test and response.json()
TryRequest(method, path, data, t) ==
    IF method \notin Verbs THEN Returned(Null)
    ELSE IF "exc" \in DOMAIN t THEN Raised(t.exc)
    ELSE IF t.status \in {200, 201}
         THEN (IF t.body = "undecodable"
               THEN Raised("JSONDecodeError")
               ELSE Returned(ServerJson(method, path, data)))
         ELSE Returned(Null)

\* a request primitive without the except clause
MakeRequestOutcomeMutant(method, path, data, t) == TryRequest(method, path, data, t)

\* try: ... except Exception: return None
MakeRequestOutcome(method, path, data, t) ==
    LET r == TryRequest(method, path, data, t)
    IN  IF r.kind = "raise" THEN Returned(Null) ELSE r

\* the requests calls one invocation makes
Attempts(method, path, t) ==
    IF method \in Verbs THEN <<Req(method, path, t)>> ELSE <<>>

\* the data a caller hands over
RequestData == { TradeRecord(PartialSignal, FALSE, 0) }

MakeRequest ==
    \E target \in Targets, data \in RequestData, t \in Transports :
        LET method == target[1]
            path == target[2]
            stored == method = "POST" /\ path = "trades" /\ t.applied
        IN
        /\ stored => Len(remoteTrades) + Len(localTrades) < MaxTrades
        /\ call' = [op |-> "_make_request", method |-> method, path |-> path,
                    data |-> data]
        /\ reqs' = Attempts(method, path, t)
        /\ ret' = MakeRequestOutcome(method, path, data, t)
        /\ remoteTrades' = IF stored THEN Append(remoteTrades, data)
                           ELSE remoteTrades
        /\ UNCHANGED <<probe, initialized, hasLocal, localTrades,
                       remoteSignals, clock, engineVars, indVars, poolVars, threadVars>>

\* the primitive called directly and, so that the instance has a buffer
\* with records in it, save_signal
NextRequest ==
    \/ MakeRequest
    \/ SaveSignal

SpecRequest == Init /\ [][NextRequest]_vars

\* the transports that are not a 200/201 answer with a decodable body
FailedTransports ==
    { t \in Transports :
        \/ "exc" \in DOMAIN t
        \/ t.status \notin {200, 201}
        \/ t.body = "undecodable" }

\* C21: _make_request never raises: whatever the verb (one of the five, or
\* an unsupported one) and whatever the transport does, the call returns;
\* it returns None for an unsupported verb, a transport error, a timeout, a
\* status other than 200/201 and an undecodable body; it makes one requests
\* call at most (exactly one for a supported verb, none otherwise); and it
\* leaves the mode flag and the local buffer as they were.
C21_RequestNeverRaises ==
    /\ [](call.op = "_make_request" =>
            /\ ret.kind = "ok"
            /\ Len(reqs) = (IF call.method \in Verbs THEN 1 ELSE 0)
            /\ call.method \notin Verbs => ret = Returned(Null)
            /\ \A i \in 1..Len(reqs) :
                 reqs[i].net \in FailedTransports => ret = Returned(Null))
    /\ [][call'.op = "_make_request" =>
            UNCHANGED <<initialized, hasLocal, localTrades>>]_vars

\* a request on an instance whose buffer holds a record met a timeout, and
\* one an undecodable body
C21_Witness ==
    /\ call.op = "_make_request"
    /\ localTrades # <<>>
    /\ reqs # <<>>
    /\ "exc" \in DOMAIN reqs[1].net
    /\ reqs[1].net.exc = "Timeout"
    /\ ret = Returned(Null)

\* C22: save_signal never loses a record and always returns an id: when it
\* obtains no store key (the instance is LOCAL, or the POST of a REMOTE one
\* did not come back with a 'name') it appends the normalized record to the
\* local buffer and returns the 'local_' id of its position; when it
\* obtains a key it returns that key and leaves the buffer as it was; and
\* so the record is added to exactly one of the remote collection and the
\* local buffer.
C22_SavedExactlyOnce ==
    [][ call'.op = "save_signal" =>
          LET record == TradeRecord(call'.signal, call'.executed, clock')
              keyed == initialized /\ reqs'[1].net = "ok"
              buffer == IF hasLocal THEN localTrades ELSE <<>>
              inRemote == remoteTrades' = Append(remoteTrades, record)
              inLocal == localTrades' = Append(buffer, record)
          IN  /\ ret'.n >= 1
              /\ ~keyed => inLocal /\ ret' = LocalId(Len(localTrades'))
              /\ keyed => /\ ret' = RemoteKey(Len(remoteTrades'))
                          /\ UNCHANGED localTrades
              /\ inRemote \/ inLocal
              /\ inRemote => UNCHANGED localTrades
              /\ inLocal => UNCHANGED remoteTrades ]_vars

(***************************************************************************)
(* save_signal called from two threads of one process.  The statements of  *)
(* lines 107-116 are separate steps of each thread; the interpreter can    *)
(* switch threads between any two of them, and does during the POST.       *)
(***************************************************************************)
\* save_signal is entered: the record is built with datetime.now()
CallSaveSignal(t) ==
    /\ threads[t].at \in {"idle", "returned"}
    /\ \E signal \in Signals, executed \in BOOLEAN, now \in Nows :
         /\ clock' = now
         /\ threads' = [threads EXCEPT ![t] =
                Thread("line107", TradeRecord(signal, executed, now), Null)]
    /\ UNCHANGED <<probe, initialized, hasLocal, localTrades, remoteTrades,
                   remoteSignals, call, ret, reqs, issued,
                   engineVars, indVars, poolVars>>

\* lines 107-110: if self.initialized, the POST; with a 'name' in the
\* result the call returns it
PostRecord(t) ==
    /\ threads[t].at = "line107"
    /\ \E net \in PostOutcomes :
         LET posted == initialized /\ net = "ok"
             applied == initialized /\ net \in {"ok", "lost"}
             key == RemoteKey(Len(remoteTrades) + 1)
         IN
         /\ initialized \/ net = "ok"   \* no request, no network outcome
         /\ remoteTrades' = IF applied
                            THEN Append(remoteTrades, threads[t].record)
                            ELSE remoteTrades
         /\ threads' = [threads EXCEPT ![t] =
                IF posted THEN Thread("returned", @.record, key)
                ELSE Thread("line113", @.record, Null)]
         /\ issued' = IF posted THEN Append(issued, key) ELSE issued
    /\ UNCHANGED <<probe, initialized, hasLocal, localTrades, remoteSignals,
                   clock, call, ret, reqs, engineVars, indVars, poolVars>>

\* line 113: if not hasattr(self, '_local_storage')
TestLocalStorage(t) ==
    /\ threads[t].at = "line113"
    /\ threads' = [threads EXCEPT ![t].at =
                      IF hasLocal THEN "line115" ELSE "line50"]
    /\ UNCHANGED <<storeVars, issued, engineVars, indVars, poolVars>>

\* line 50: self._local_storage = {'trades': [], 'config': {'capital': 100}}
AssignLocalStorage(t) ==
    /\ threads[t].at = "line50"
    /\ hasLocal' = TRUE
    /\ localTrades' = <<>>
    /\ threads' = [threads EXCEPT ![t].at = "line51"]
    /\ UNCHANGED <<probe, initialized, remoteTrades, remoteSignals, clock,
                   call, ret, reqs, issued, engineVars, indVars, poolVars>>

\* line 51: self.initialized = False
ClearInitialized(t) ==
    /\ threads[t].at = "line51"
    /\ initialized' = FALSE
    /\ threads' = [threads EXCEPT ![t].at = "line115"]
    /\ UNCHANGED <<probe, hasLocal, localTrades, remoteTrades, remoteSignals,
                   clock, call, ret, reqs, issued, engineVars, indVars, poolVars>>

\* line 115: self._local_storage['trades'].append(record)
AppendRecord(t) ==
    /\ threads[t].at = "line115"
    /\ localTrades' = Append(localTrades, threads[t].record)
    /\ threads' = [threads EXCEPT ![t].at = "line116"]
    /\ UNCHANGED <<probe, initialized, hasLocal, remoteTrades, remoteSignals,
                   clock, call, ret, reqs, issued, engineVars, indVars, poolVars>>

\* line 116: return f"local_{len(self._local_storage['trades'])}"
ReturnLocalId(t) ==
    /\ threads[t].at = "line116"
    /\ threads' = [threads EXCEPT ![t] =
                      Thread("returned", @.record, LocalId(Len(localTrades)))]
    /\ issued' = Append(issued, LocalId(Len(localTrades)))
    /\ UNCHANGED <<storeVars, engineVars, indVars, poolVars>>

NextThreads ==
    \E t \in Threads :
        \/ CallSaveSignal(t)
        \/ PostRecord(t)
        \/ TestLocalStorage(t)
        \/ AssignLocalStorage(t)
        \/ ClearInitialized(t)
        \/ AppendRecord(t)
        \/ ReturnLocalId(t)

SpecThreads == Init /\ [][NextThreads]_vars

\* s is t with entries added at its end
IsPrefix(s, t) == Len(s) <= Len(t) /\ SubSeq(t, 1, Len(s)) = s

\* C23: the local buffer is append-only (no step removes or reorders its
\* entries), a call that appended to the buffer returns 'local_k' for the
\* position k of its record in the buffer, and no two save_signal calls on
\* one instance return the same local id, REMOTE instances that fall back
\* after a failed POST and calls overlapping from two threads included.
C23_LocalIdsPositionalUnique ==
    /\ [][IsPrefix(localTrades, localTrades')]_vars
    /\ [][\A t \in Threads :
            (threads[t].at = "line116" /\ threads'[t].at = "returned") =>
                /\ threads'[t].ret.n \in 1..Len(localTrades')
                /\ localTrades'[threads'[t].ret.n] = threads[t].record]_vars
    /\ [](\A i, j \in 1..Len(issued) :
            (i # j /\ IsLocalId(issued[i])) => issued[i] # issued[j])

=============================================================================
